---- MODULE Spec2Model ----
(***************************************************************************)
(* MChain (src/main.rs): a command-line proof-of-work chain.  One program  *)
(* invocation runs one command (mine, verify, list, reset) against the     *)
(* directory mchain_data, which holds one file block_<index>.json per      *)
(* block.  Invocations run one after the other; a running mine command     *)
(* may be stopped at any of its steps.                                     *)
(*                                                                         *)
(* Strings are sequences of one-character strings, so that formatting,     *)
(* concatenation, prefix tests and path ordering are computed character    *)
(* by character as the code does.                                          *)
(***************************************************************************)
EXTENDS Integers, Sequences, FiniteSets, TLC

\* ---------------------------------------------------------------- bounds
\* Width of the modelled digest in hexadecimal characters (SHA-256 has 64).
DigestLen == 3
\* Block count of a long mine command: with the genesis block it fills the
\* store past block_10.json.
LongRun == 11
\* Largest value of the wall clock.
MaxClock == 1
\* Largest nonce the search is followed to.
MaxNonce == 80
\* Number of mine commands followed in one behaviour.
MaxMines == 2
\* The same where time passes.
MaxTimedMines == 1
\* Number of changes made to the store from outside the program.
MaxTampers == 1

\* ------------------------------------------------------- program constants
\* format!("{:x}") renders the digest in radix 16.
HexRadix == 16
\* A genesis block with an empty previous_hash.
SentinelEmpty == <<>>
\* previous_hash of the genesis block.
Sentinel == <<"0">>
GenesisData == <<"G", "e", "n", "e", "s", "i", "s", " ", "B", "l", "o", "c", "k">>

\* ---------------------------------------------------------------- inputs
DifficultySet == {0, 1, DigestLen + 1}
DataSet == {<<"a">>, <<"b">>}
ShortRuns == {0, 1, 2}
MidRuns == {0, 1, 4}
LongRuns == {1, LongRun}

\* ---------------------------------------------------------------- strings
Ascii ==
    (" " :> 32) @@ ("#" :> 35) @@ ("." :> 46) @@ ("_" :> 95) @@
    ("0" :> 48) @@ ("1" :> 49) @@ ("2" :> 50) @@ ("3" :> 51) @@ ("4" :> 52) @@
    ("5" :> 53) @@ ("6" :> 54) @@ ("7" :> 55) @@ ("8" :> 56) @@ ("9" :> 57) @@
    ("B" :> 66) @@ ("G" :> 71) @@
    ("a" :> 97) @@ ("b" :> 98) @@ ("c" :> 99) @@ ("d" :> 100) @@ ("e" :> 101) @@
    ("f" :> 102) @@ ("i" :> 105) @@ ("j" :> 106) @@ ("k" :> 107) @@ ("l" :> 108) @@
    ("n" :> 110) @@ ("o" :> 111) @@ ("s" :> 115)

DecDigits == <<"0", "1", "2", "3", "4", "5", "6", "7", "8", "9">>
HexDigits == <<"0", "1", "2", "3", "4", "5", "6", "7", "8", "9",
               "a", "b", "c", "d", "e", "f">>

\* Display of an unsigned integer: format!("{}", n).
RECURSIVE Dec(_)
Dec(n) == IF n < 10 THEN <<DecDigits[n + 1]>>
          ELSE Dec(n \div 10) \o <<DecDigits[(n % 10) + 1]>>

RECURSIVE Pow(_, _)
Pow(b, e) == IF e = 0 THEN 1 ELSE b * Pow(b, e - 1)

\* "0".repeat(n)
RECURSIVE Repeat0(_)
Repeat0(n) == IF n = 0 THEN <<>> ELSE <<"0">> \o Repeat0(n - 1)

\* str::starts_with
starts_with(s, prefix) ==
    /\ Len(prefix) <= Len(s)
    /\ SubSeq(s, 1, Len(prefix)) = prefix

\* ------------------------------------------------------------------ hasher
\* The digest of a byte string.  SHA-256 is replaced by a multiplicative
\* digest of DigestLen hexadecimal characters: deterministic, of fixed width,
\* every input byte absorbed in order, and a final multiplication that
\* carries a change of any byte into the leading characters.
DigestSpace == Pow(HexRadix, DigestLen)

RECURSIVE Absorb(_, _, _)
Absorb(s, i, acc) ==
    IF i > Len(s) THEN acc
    ELSE Absorb(s, i + 1, (acc * 33 + Ascii[s[i]] + 7) % DigestSpace)

Sha256(input) == (Absorb(input, 1, 5) * 25173) % DigestSpace

\* format!("{:x}", digest): fixed width, lowercase, most significant first.
LowerHex(v) ==
    [k \in 1..DigestLen |->
        HexDigits[((v \div Pow(HexRadix, DigestLen - k)) % HexRadix) + 1]]

HashInput(index, timestamp, data, nonce, previous_hash) ==
    Dec(index) \o Dec(timestamp) \o data \o Dec(nonce) \o previous_hash

calculate_hash(index, timestamp, data, nonce, previous_hash) ==
    LowerHex(Sha256(HashInput(index, timestamp, data, nonce, previous_hash)))

\* ------------------------------------------------------------------- store
\* struct Block
Block(index, timestamp, data, nonce, previous_hash, hash, ms) ==
    [index |-> index, timestamp |-> timestamp, data |-> data, nonce |-> nonce,
     previous_hash |-> previous_hash, hash |-> hash, mining_duration_ms |-> ms]

\* File contents: the JSON text of a block, or a file just created (empty).
JsonOf(block) == [kind |-> "json", block |-> block]
EmptyFile == [kind |-> "empty"]
\* A file whose text is not the JSON of a block.
GarbageFile == [kind |-> "garbage"]

\* serde_json::from_reader succeeds
Parses(content) == content.kind = "json"

\* The file name save_block_to_file writes block `index` to.
FileName(index) ==
    <<"b", "l", "o", "c", "k", "_">> \o Dec(index) \o <<".", "j", "s", "o", "n">>

\* Ordering of two paths of the same directory: byte-wise on the file name.
RECURSIVE PathLessFrom(_, _, _)
PathLessFrom(a, b, i) ==
    IF i > Len(a) THEN i <= Len(b)
    ELSE IF i > Len(b) THEN FALSE
    ELSE IF Ascii[a[i]] # Ascii[b[i]] THEN Ascii[a[i]] < Ascii[b[i]]
    ELSE PathLessFrom(a, b, i + 1)

PathLess(a, b) == PathLessFrom(a, b, 1)

\* files.sort_by_key(|f| f.path()): the indices of the files in path order,
\* built by inserting one file after the other at its place.
RECURSIVE InsertByPath(_, _)
InsertByPath(sorted, x) ==
    IF sorted = <<>> THEN <<x>>
    ELSE IF PathLess(FileName(x), FileName(Head(sorted))) THEN <<x>> \o sorted
    ELSE <<Head(sorted)>> \o InsertByPath(Tail(sorted), x)

RECURSIVE SortByPath(_)
SortByPath(S) ==
    IF S = {} THEN <<>>
    ELSE LET x == CHOOSE y \in S : TRUE
         IN InsertByPath(SortByPath(S \ {x}), x)

\* The loop of load_blocks_from_disk leaving at the first file that does not
\* parse.
RECURSIVE PushParsedAborting(_, _, _)
PushParsedAborting(files, st, i) ==
    IF i > Len(files) \/ ~Parses(st[files[i]]) THEN <<>>
    ELSE <<st[files[i]].block>> \o PushParsedAborting(files, st, i + 1)

\* The loop of load_blocks_from_disk: push every file that parses.
RECURSIVE PushParsed(_, _, _)
PushParsed(files, st, i) ==
    IF i > Len(files) THEN <<>>
    ELSE (IF Parses(st[files[i]]) THEN <<st[files[i]].block>> ELSE <<>>)
         \o PushParsed(files, st, i + 1)

\* The chain up to its first broken link.
RECURSIVE LinkedPrefix(_, _)
LinkedPrefix(chain, n) ==
    IF n >= Len(chain) THEN chain
    ELSE IF chain[n + 1].previous_hash # chain[n].hash THEN SubSeq(chain, 1, n)
    ELSE LinkedPrefix(chain, n + 1)

\* load_blocks_from_disk that cuts the chain at the first broken link.
load_blocks_truncating(exists, st) ==
    IF ~exists THEN <<>>
    ELSE LinkedPrefix(PushParsed(SortByPath(DOMAIN st), st, 1), 1)

load_blocks_from_disk(exists, st) ==
    IF ~exists THEN <<>>
    ELSE PushParsed(SortByPath(DOMAIN st), st, 1)

\* --------------------------------------------------------------- validator
\* Output lines of the program.
LineInvalidLink(i) == [t |-> "invalid_link", index |-> i]
LineAllLinked == [t |-> "all_linked"]
LineNoBlocks == [t |-> "no_blocks_found"]
LineGenesis == [t |-> "creating_genesis"]
LineDeleted == [t |-> "all_blocks_deleted"]
LineNothingToDelete == [t |-> "no_blocks_to_delete"]
LineUnsupported == [t |-> "only_apple_silicon"]
LineUseHelp == [t |-> "use_help"]
LineMined(b) == [t |-> "mined", index |-> b.index, ms |-> b.mining_duration_ms,
                 nonce |-> b.nonce, hash |-> b.hash]
LineBlock(b) == [t |-> "block", index |-> b.index, ms |-> b.mining_duration_ms,
                 nonce |-> b.nonce, hash |-> b.hash]

\* The loop of verify_chain over positions i = 1 .. len-1 (0-based), which
\* are the positions i+1 of the 1-based sequence.
RECURSIVE VerifyFrom(_, _)
VerifyFrom(chain, i) ==
    IF i >= Len(chain) THEN [ret |-> "true", out |-> <<LineAllLinked>>]
    ELSE IF chain[i + 1].previous_hash # chain[i].hash
         THEN [ret |-> "false", out |-> <<LineInvalidLink(i)>>]
         ELSE VerifyFrom(chain, i + 1)

\* The stored hash of a block is the hash of its stored fields.
HashIntact(b) ==
    b.hash = calculate_hash(b.index, b.timestamp, b.data, b.nonce, b.previous_hash)

\* A verify_chain that also recomputes the hash of every block.
verify_chain_strict(chain) ==
    LET edited == {p \in 1..Len(chain) : ~HashIntact(chain[p])}
    IN IF edited # {}
       THEN [ret |-> "false",
             out |-> <<LineInvalidLink((CHOOSE p \in edited : \A q \in edited : p <= q) - 1)>>]
       ELSE VerifyFrom(chain, 1)

\* verify_chain with its loop started one position late.
verify_chain_from_2(chain) == VerifyFrom(chain, 2)

verify_chain(chain) == VerifyFrom(chain, 1)

list_blocks(chain) == [i \in 1..Len(chain) |-> LineBlock(chain[i])]

\* ------------------------------------------------------------------- state
VARIABLES
    platform,    \* what sysctl reports: "apple", "other", or "no_sysctl"
    clock,       \* the wall clock as last read
    dirExists,   \* mchain_data exists
    store,       \* the files of mchain_data: index k stands for block_k.json
    pc,          \* position of the running invocation, "idle" between two
    cmd,         \* the last thing that ran: a command, or "tamper"
    args,        \* the arguments of the mine command
    phase,       \* "genesis" or "loop": where mine_block was called from
    blockchain,  \* the in-memory chain of the mine command
    next_index,  \* local next_index of the mine command
    remaining,   \* iterations of `for _ in 0..blocks` not yet finished
    call,        \* the frame of the running mine_block call
    mined,       \* the block mine_block returned, being saved
    out,         \* standard output of the running or last invocation
    exit,        \* exit status of the last invocation
    mines,       \* number of mine commands started
    tampers,     \* number of changes made to the store from outside
    ret          \* what verify_chain returned in the last invocation, or "none"

vars == <<platform, clock, dirExists, store, pc, cmd, args, phase, blockchain,
          next_index, remaining, call, mined, out, exit, mines, tampers, ret>>

locals == <<args, phase, blockchain, next_index, remaining, call, mined>>

EmptyStore == [k \in {} |-> EmptyFile]
NoBlock == Block(0, 0, <<>>, 0, <<>>, <<>>, 0)
NoArgs == [blocks |-> 0, difficulty |-> 0, data |-> <<>>]
NoCall == [index |-> 0, data |-> <<>>, previous_hash |-> <<>>, difficulty |-> 0,
           timestamp |-> 0, nonce |-> 0, start |-> 0]

Last(chain) == chain[Len(chain)]

Init ==
    /\ platform \in {"apple", "other", "no_sysctl"}
    /\ clock = 0
    /\ dirExists = FALSE
    /\ store = EmptyStore
    /\ pc = "idle"
    /\ cmd = "none"
    /\ args = NoArgs
    /\ phase = "none"
    /\ blockchain = <<>>
    /\ next_index = 0
    /\ remaining = 0
    /\ call = NoCall
    /\ mined = NoBlock
    /\ out = <<>>
    /\ exit = 0
    /\ mines = 0
    /\ tampers = 0
    /\ ret = "none"

\* main, lines 153-156: the platform gate, for any command.
Refuse(c) ==
    /\ platform # "apple"
    /\ pc = "idle"
    /\ cmd' = c
    /\ out' = IF platform = "other" THEN <<LineUnsupported>> ELSE <<>>
    /\ exit' = IF platform = "other" THEN 1 ELSE 101
    /\ ret' = "none"
    /\ UNCHANGED <<platform, clock, dirExists, store, pc, locals, mines, tampers>>

\* ------------------------------------------------------------------- miner
\* Entry of mine_block: the timestamp is taken once, the nonce starts at 0.
EnterMine(index, data, previous_hash, difficulty, now) ==
    [index |-> index, data |-> data, previous_hash |-> previous_hash,
     difficulty |-> difficulty, timestamp |-> now, nonce |-> 0, start |-> now]

\* The hash of the attempt after the one tested.
CallHashNextNonce(c) ==
    calculate_hash(c.index, c.timestamp, c.data, c.nonce + 1, c.previous_hash)

CallHash(c) == calculate_hash(c.index, c.timestamp, c.data, c.nonce, c.previous_hash)

\* The test of the search loop with a prefix one character short.
FoundOneShort(c) ==
    starts_with(CallHash(c), Repeat0(IF c.difficulty > 0 THEN c.difficulty - 1 ELSE 0))

\* The test of a search loop that gives up after a few attempts.
FoundOrGivenUp(c) ==
    starts_with(CallHash(c), Repeat0(c.difficulty)) \/ c.nonce >= 3

\* The test of the search loop.
Found(c) == starts_with(CallHash(c), Repeat0(c.difficulty))

\* A search loop that tests the nonce only after its first increment.
SearchLoopFromNext(c) ==
    LET Attempt(n) == [c EXCEPT !.nonce = n]
        last == CHOOSE n \in (c.nonce + 1)..MaxNonce :
                    /\ Found(Attempt(n)) \/ n = MaxNonce
                    /\ \A m \in (c.nonce + 1)..(n - 1) : ~Found(Attempt(m))
    IN  Attempt(last)

\* The search loop of mine_block from the frame c: the frame it returns
\* from, or the frame at MaxNonce when no attempt up to there succeeds.
SearchLoop(c) ==
    LET Attempt(n) == [c EXCEPT !.nonce = n]
        last == CHOOSE n \in c.nonce..MaxNonce :
                    /\ Found(Attempt(n)) \/ n = MaxNonce
                    /\ \A m \in c.nonce..(n - 1) : ~Found(Attempt(m))
    IN  Attempt(last)

\* The data of the block mined at next_index: format!("{} #{}", data, next_index).
BlockData(data, idx) == data \o <<" ", "#">> \o Dec(idx)

\* A mine command that raises the difficulty by one every two blocks.
PassedDifficultyEscalating(base, idx) == base + (idx \div 2)

\* The difficulty the mine command passes to mine_block for block idx.
PassedDifficulty(base, idx) == base

\* Head of `for _ in 0..blocks`: leave the command, or call mine_block.
LoopHead(chain, idx, rem, a, now) ==
    IF rem = 0
    THEN /\ now = clock
         /\ pc' = "idle"
         /\ clock' = clock
         /\ args' = NoArgs /\ phase' = "none" /\ blockchain' = <<>>
         /\ next_index' = 0 /\ remaining' = 0 /\ call' = NoCall
    ELSE /\ pc' = "search"
         /\ clock' = now
         /\ args' = a /\ phase' = "loop" /\ blockchain' = chain
         /\ next_index' = idx /\ remaining' = rem
         /\ call' = EnterMine(idx, BlockData(a.data, idx), Last(chain).hash,
                              PassedDifficulty(a.difficulty, idx), now)

\* main, Commands::Mine up to the first call of mine_block.
\* Runs and Difficulties are the arguments and Times the clock readings it is
\* followed for, Budget the number of mine commands followed.
MineStart(Runs, Difficulties, Times, Budget) ==
    /\ platform = "apple"
    /\ pc = "idle"
    /\ mines < Budget
    /\ cmd' = "mine"
    /\ mines' = mines + 1
    /\ exit' = 0
    /\ mined' = NoBlock
    /\ LET chain == load_blocks_from_disk(dirExists, store)
       IN \E blocks \in Runs, difficulty \in Difficulties, data \in DataSet, now \in Times :
          LET a == [blocks |-> blocks, difficulty |-> difficulty, data |-> data]
          IN IF chain = <<>>
             THEN /\ out' = <<LineGenesis>>
                  /\ pc' = "search"
                  /\ clock' = now
                  /\ args' = a /\ phase' = "genesis" /\ blockchain' = <<>>
                  /\ next_index' = 0 /\ remaining' = blocks
                  /\ call' = EnterMine(0, GenesisData, Sentinel, difficulty, now)
             ELSE /\ out' = <<>>
                  /\ LoopHead(chain, Last(chain).index + 1, blocks, a, now)
    /\ ret' = "none"
    /\ UNCHANGED <<platform, dirExists, store, tampers>>

\* mine_block from its loop to its return: the search, the elapsed time,
\* the printed line and the block.  The search touches nothing but its own
\* nonce, so it is one step; a search that does not end never returns.
MineBlock(Times) ==
    /\ pc = "search"
    /\ LET c == SearchLoop(call)
           hash == CallHash(c)
       IN /\ Found(c)
          /\ \E now \in Times :
                /\ clock' = now
                /\ mined' = Block(c.index, c.timestamp, c.data, c.nonce,
                                  c.previous_hash, hash, now - c.start)
    /\ out' = Append(out, LineMined(mined'))
    /\ call' = NoCall
    /\ pc' = "create"
    /\ UNCHANGED <<platform, dirExists, store, cmd, args, phase, blockchain,
                   next_index, remaining, exit, mines, tampers, ret>>

\* save_block_to_file up to File::create: the directory and an empty file exist.
CreateFile ==
    /\ pc = "create"
    /\ dirExists' = TRUE
    /\ store' = [k \in DOMAIN store \cup {mined.index} |->
                    IF k = mined.index THEN EmptyFile ELSE store[k]]
    /\ pc' = "write"
    /\ UNCHANGED <<platform, clock, cmd, locals, out, exit, mines, tampers, ret>>

\* write_all, the push onto the in-memory chain, and the next loop head.
WriteFile(Times) ==
    /\ pc = "write"
    /\ store' = [store EXCEPT ![mined.index] = JsonOf(mined)]
    /\ mined' = NoBlock
    /\ LET chain == Append(blockchain, mined)
       IN \E now \in Times :
          IF phase = "genesis"
          THEN LoopHead(chain, Last(chain).index + 1, remaining, args, now)
          ELSE LoopHead(chain, next_index + 1, remaining - 1, args, now)
    /\ UNCHANGED <<platform, dirExists, cmd, out, exit, mines, tampers, ret>>

\* The process is stopped while the mine command runs.
Kill ==
    /\ pc # "idle"
    /\ pc' = "idle"
    /\ exit' = 137
    /\ args' = NoArgs /\ phase' = "none" /\ blockchain' = <<>>
    /\ next_index' = 0 /\ remaining' = 0 /\ call' = NoCall /\ mined' = NoBlock
    /\ UNCHANGED <<platform, clock, dirExists, store, cmd, out, mines, tampers, ret>>

\* ---------------------------------------------------------- other commands
\* A verify command that drops the stored blocks from the first broken link on.
VerifyRepairing ==
    /\ platform = "apple"
    /\ pc = "idle"
    /\ cmd' = "verify"
    /\ LET chain == load_blocks_from_disk(dirExists, store)
           good == LinkedPrefix(chain, 1)
           kept == {good[p].index : p \in 1..Len(good)}
       IN /\ IF chain = <<>>
             THEN out' = <<LineNoBlocks>> /\ ret' = "none"
             ELSE out' = verify_chain(chain).out /\ ret' = verify_chain(chain).ret
          /\ store' = [k \in DOMAIN store \cap kept |-> store[k]]
    /\ exit' = 0
    /\ UNCHANGED <<platform, clock, dirExists, pc, locals, mines, tampers>>

\* main, Commands::Verify
Verify ==
    /\ platform = "apple"
    /\ pc = "idle"
    /\ cmd' = "verify"
    /\ LET chain == load_blocks_from_disk(dirExists, store)
       IN IF chain = <<>>
          THEN out' = <<LineNoBlocks>> /\ ret' = "none"
          ELSE out' = verify_chain(chain).out /\ ret' = verify_chain(chain).ret
    /\ exit' = 0
    /\ UNCHANGED <<platform, clock, dirExists, store, pc, locals, mines, tampers>>

\* main, Commands::List
List ==
    /\ platform = "apple"
    /\ pc = "idle"
    /\ cmd' = "list"
    /\ LET chain == load_blocks_from_disk(dirExists, store)
       IN out' = IF chain = <<>> THEN <<LineNoBlocks>> ELSE list_blocks(chain)
    /\ exit' = 0
    /\ ret' = "none"
    /\ UNCHANGED <<platform, clock, dirExists, store, pc, locals, mines, tampers>>

\* A reset that removes the genesis file only.
ResetGenesisOnly ==
    /\ platform = "apple"
    /\ pc = "idle"
    /\ cmd' = "reset"
    /\ IF dirExists
       THEN /\ dirExists' = dirExists
            /\ store' = [k \in DOMAIN store \ {0} |-> store[k]]
            /\ out' = <<LineDeleted>>
       ELSE /\ UNCHANGED <<dirExists, store>>
            /\ out' = <<LineNothingToDelete>>
    /\ exit' = 0
    /\ ret' = "none"
    /\ UNCHANGED <<platform, clock, pc, locals, mines, tampers>>

\* main, Commands::Reset: delete_all_blocks
Reset ==
    /\ platform = "apple"
    /\ pc = "idle"
    /\ cmd' = "reset"
    /\ IF dirExists
       THEN /\ dirExists' = FALSE
            /\ store' = EmptyStore
            /\ out' = <<LineDeleted>>
       ELSE /\ UNCHANGED <<dirExists, store>>
            /\ out' = <<LineNothingToDelete>>
    /\ exit' = 0
    /\ ret' = "none"
    /\ UNCHANGED <<platform, clock, pc, locals, mines, tampers>>

\* main, no subcommand
Help ==
    /\ platform = "apple"
    /\ pc = "idle"
    /\ cmd' = "none"
    /\ out' = <<LineUseHelp>>
    /\ exit' = 0
    /\ ret' = "none"
    /\ UNCHANGED <<platform, clock, dirExists, store, pc, locals, mines, tampers>>

\* ------------------------------------------------------------- environment
\* A previous_hash a block is given from outside the program.
ForgedHash == <<"f">>

\* Someone edits block_k.json between two invocations: another previous_hash.
TamperLink(k) ==
    /\ pc = "idle"
    /\ tampers < MaxTampers
    /\ k \in DOMAIN store
    /\ Parses(store[k])
    /\ store' = [store EXCEPT ![k].block.previous_hash = ForgedHash]
    /\ tampers' = tampers + 1
    /\ cmd' = "tamper"
    /\ UNCHANGED <<platform, clock, dirExists, pc, locals, out, exit, mines, ret>>

\* The character an edited data field starts with.
ForgedChar == "c"

\* Someone edits block_k.json between two invocations: the first character of
\* data is replaced, the stored hash is left as it was.
TamperData(k) ==
    /\ pc = "idle"
    /\ tampers < MaxTampers
    /\ k \in DOMAIN store
    /\ Parses(store[k])
    /\ Head(store[k].block.data) # ForgedChar
    /\ store' = [store EXCEPT ![k].block.data = <<ForgedChar>> \o Tail(@)]
    /\ tampers' = tampers + 1
    /\ cmd' = "tamper"
    /\ UNCHANGED <<platform, clock, dirExists, pc, locals, out, exit, mines, ret>>

\* ---------------------------------------------------------- specifications
Commands == {"mine", "verify", "list", "reset", "none"}

\* What SystemTime::now and Instant::now may read: time passes, or stands
\* still over the behaviour.
Passing == clock..MaxClock
Standing == {clock}

\* The program alone, mine commands of a few blocks, stopped at any step.
Next ==
    \/ \E c \in Commands : Refuse(c)
    \/ MineStart(ShortRuns, DifficultySet, Standing, MaxMines)
    \/ MineBlock(Standing)
    \/ CreateFile
    \/ WriteFile(Standing)
    \/ Kill
    \/ Verify
    \/ List
    \/ Reset
    \/ Help

Spec == Init /\ [][Next]_vars

\* The same with time passing between the readings of the clock.
NextTime ==
    \/ \E c \in Commands : Refuse(c)
    \/ MineStart(ShortRuns, DifficultySet, Passing, MaxTimedMines)
    \/ MineBlock(Passing)
    \/ CreateFile
    \/ WriteFile(Passing)
    \/ Kill
    \/ Verify
    \/ List
    \/ Reset
    \/ Help

SpecTime == Init /\ [][NextTime]_vars

\* The program alone and never stopped, mine commands that fill the store
\* past block_10.json.
NextLong ==
    \/ \E c \in Commands : Refuse(c)
    \/ MineStart(LongRuns, DifficultySet, Standing, MaxMines)
    \/ MineBlock(Standing)
    \/ CreateFile
    \/ WriteFile(Standing)
    \/ Verify
    \/ List
    \/ Reset
    \/ Help

SpecLong == Init /\ [][NextLong]_vars

\* The program, never stopped, and an environment that edits the stored files
\* between two invocations.
NextEnv ==
    \/ \E c \in Commands : Refuse(c)
    \/ MineStart(MidRuns, {1}, Standing, MaxMines)
    \/ MineBlock(Standing)
    \/ CreateFile
    \/ WriteFile(Standing)
    \/ Verify
    \/ List
    \/ Reset
    \/ Help
    \/ \E k \in DOMAIN store : TamperLink(k)

SpecEnv == Init /\ [][NextEnv]_vars

\* The program, never stopped, and an environment that edits the data of the
\* stored blocks between two invocations.
NextTamper ==
    \/ \E c \in Commands : Refuse(c)
    \/ MineStart(ShortRuns, {1}, Standing, MaxMines)
    \/ MineBlock(Standing)
    \/ CreateFile
    \/ WriteFile(Standing)
    \/ Verify
    \/ List
    \/ Reset
    \/ Help
    \/ \E k \in DOMAIN store : TamperData(k)

SpecTamper == Init /\ [][NextTamper]_vars

\* ------------------------------------------------- verify_chain on its own
\* Chains of any content: every block carries one of two hashes and one of
\* two previous hashes, so links hold and break at every position.
MaxChainLen == 3
HashPool == {<<"0", "a">>, <<"0", "b">>}
LinkBlocks == {Block(0, 0, <<>>, 0, p, h, 0) : p \in HashPool, h \in HashPool}
ChainsOfLen(n) == [1..n -> LinkBlocks]

InitVerify ==
    /\ platform = "apple"
    /\ clock = 0
    /\ dirExists = FALSE
    /\ store = EmptyStore
    /\ pc = "verify_chain"
    /\ cmd = "none"
    /\ args = NoArgs
    /\ phase = "none"
    /\ \E n \in 0..MaxChainLen : blockchain \in ChainsOfLen(n)
    /\ next_index = 0
    /\ remaining = 0
    /\ call = NoCall
    /\ mined = NoBlock
    /\ out = <<>>
    /\ exit = 0
    /\ mines = 0
    /\ tampers = 0
    /\ ret = "none"

\* A call verify_chain(&blockchain).
VerifyChainCall ==
    /\ pc = "verify_chain"
    /\ pc' = "verified"
    /\ out' = verify_chain(blockchain).out
    /\ ret' = verify_chain(blockchain).ret
    /\ UNCHANGED <<platform, clock, dirExists, store, cmd, locals, exit, mines, tampers>>

SpecVerify == InitVerify /\ [][VerifyChainCall]_vars

\* ---------------------------------------- load_blocks_from_disk on its own
\* Stores of any mix of files: each of block_0.json, block_1.json,
\* block_2.json, block_10.json is absent, empty, not JSON, or a block.
LoadPool == {0, 1, 2, 10}
FileKinds == {"empty", "garbage", "json"}
PoolFile(k, kind) ==
    IF kind = "json" THEN JsonOf(Block(k, 0, GenesisData, 0, Sentinel, <<"0", "a">>, 0))
    ELSE IF kind = "garbage" THEN GarbageFile
    ELSE EmptyFile

InitLoad ==
    /\ platform = "apple"
    /\ clock = 0
    /\ dirExists = TRUE
    /\ \E S \in SUBSET LoadPool :
          \E kinds \in [S -> FileKinds] :
             store = [k \in S |-> PoolFile(k, kinds[k])]
    /\ pc = "load"
    /\ cmd = "none"
    /\ args = NoArgs
    /\ phase = "none"
    /\ blockchain = <<>>
    /\ next_index = 0
    /\ remaining = 0
    /\ call = NoCall
    /\ mined = NoBlock
    /\ out = <<>>
    /\ exit = 0
    /\ mines = 0
    /\ tampers = 0
    /\ ret = "none"

\* A call load_blocks_from_disk().
LoadCall ==
    /\ pc = "load"
    /\ pc' = "loaded"
    /\ blockchain' = load_blocks_from_disk(dirExists, store)
    /\ UNCHANGED <<platform, clock, dirExists, store, cmd, args, phase, next_index,
                   remaining, call, mined, out, exit, mines, tampers, ret>>

SpecLoad == InitLoad /\ [][LoadCall]_vars

\* ----------------------------------------------- calculate_hash on its own
\* Pairs of field tuples: two values of each of the five fields.
HashIndices == {1, 12}
HashTimestamps == {3, 23}
HashData == {<<"a", " ", "#", "1">>, <<"a", " ", "#", "1", "1">>}
HashNonces == {5, 15}
HashPrevious == {<<"0">>, <<"5", "0">>}
HashTuples ==
    {Block(i, t, d, n, p, <<>>, 0) :
        i \in HashIndices, t \in HashTimestamps, d \in HashData,
        n \in HashNonces, p \in HashPrevious}

InitHash ==
    /\ platform = "apple"
    /\ clock = 0
    /\ dirExists = FALSE
    /\ store = EmptyStore
    /\ pc = "calculate_hash"
    /\ cmd = "none"
    /\ args = NoArgs
    /\ phase = "none"
    /\ blockchain \in [1..2 -> HashTuples]
    /\ next_index = 0
    /\ remaining = 0
    /\ call = NoCall
    /\ mined = NoBlock
    /\ out = <<>>
    /\ exit = 0
    /\ mines = 0
    /\ tampers = 0
    /\ ret = "none"

\* calculate_hash on each of the two tuples: out takes the strings handed to
\* the hasher, blockchain the tuples with the digests returned.
HashCall ==
    /\ pc = "calculate_hash"
    /\ pc' = "hashed"
    /\ out' = [p \in 1..2 |->
                 HashInput(blockchain[p].index, blockchain[p].timestamp,
                           blockchain[p].data, blockchain[p].nonce,
                           blockchain[p].previous_hash)]
    /\ blockchain' = [p \in 1..2 |->
                 [blockchain[p] EXCEPT !.hash =
                     calculate_hash(blockchain[p].index, blockchain[p].timestamp,
                                    blockchain[p].data, blockchain[p].nonce,
                                    blockchain[p].previous_hash)]]
    /\ UNCHANGED <<platform, clock, dirExists, store, cmd, args, phase, next_index,
                   remaining, call, mined, exit, mines, tampers, ret>>

SpecHash == InitHash /\ [][HashCall]_vars

\* ================================================================ properties
StoredIndices == {k \in DOMAIN store : Parses(store[k])}
StoredBlock(k) == store[k].block
Range(f) == {f[x] : x \in DOMAIN f}
Min(S) == CHOOSE x \in S : \A y \in S : x <= y
Linked(chain) ==
    \A p \in 2..Len(chain) : chain[p].previous_hash = chain[p - 1].hash

\* Number of "0" characters a string starts with.
RECURSIVE ZerosFrom(_, _)
ZerosFrom(s, i) ==
    IF i > Len(s) \/ s[i] # "0" THEN 0 ELSE 1 + ZerosFrom(s, i + 1)
LeadingZeros(s) == ZerosFrom(s, 1)

\* Lines "Block mined" of the running invocation.
MinedLines == SelectSeq(out, LAMBDA l : l.t = "mined")
\* Blocks the running mine command has mined and saved.
SavedThisRun ==
    Len(MinedLines) - (IF pc \in {"create", "write"} THEN 1 ELSE 0)

\* C1: after mine commands from an empty store, the persisted blocks in
\* index order are linked: block i carries the hash of block i-1, also when
\* the store has grown past 10 blocks over several invocations.
C1_LinkageInIndexOrder ==
    (pc = "idle" /\ cmd = "mine" /\ exit = 0) =>
        \A i \in StoredIndices :
            (i >= 1 /\ i - 1 \in StoredIndices) =>
                StoredBlock(i).previous_hash = StoredBlock(i - 1).hash

\* C2: after mine and reset commands, load_blocks_from_disk returns the block
\* with index i at position i (indices 0, 1, 2, ... ascending, no gap, no
\* duplicate), for every chain length.
C2_LoadedInIndexOrder ==
    (pc = "idle" /\ exit = 0) =>
        LET chain == load_blocks_from_disk(dirExists, store)
        IN \A p \in 1..Len(chain) : chain[p].index = p - 1

\* C3: a persisted block is never mutated: no step other than reset changes
\* or removes the stored block of an index once it is written.
C3_PersistedNeverRewritten ==
    [][cmd' # "reset" =>
         \A k \in StoredIndices :
             k \in DOMAIN store' /\ store'[k] = store[k]]_vars

\* C4 (as claimed): the block with index k is mined at difficulty
\* D + floor(k / 2), D the base difficulty of the mine command.
C4_EscalatingDifficulty ==
    pc = "search" => call.difficulty = args.difficulty + (call.index \div 2)

\* C4 (amended): every block, whatever its index, is mined at the base
\* difficulty D of the mine command; the difficulty passed to the miner is
\* constant, hence non-decreasing in the block index.
C4_DifficultyPassedUnchanged ==
    pc = "search" => call.difficulty = args.difficulty

C4_Witness ==
    /\ pc = "search"
    /\ call.index = 4
    /\ args.difficulty = 1
    /\ call.difficulty = 1

\* C5 (as claimed): the chain a mine command works on is cut at the first
\* broken link, so it is linked throughout.
C5_TruncatedOnLoad ==
    (pc = "search" /\ phase = "loop") => Linked(blockchain)

\* C5 (amended): loading is not self-healing: the chain a mine command works
\* on holds every stored block that parses, whether or not its links hold,
\* and the next block gets the index after the last of them and links to it;
\* for a 5-block store whose block 3 has a wrong previous_hash that is all of
\* blocks 0..4, and the next mined block has index 5 and links to block 4.
C5_LoadKeepsBrokenChain ==
    (pc = "search" /\ phase = "loop") =>
        /\ \A k \in StoredIndices : StoredBlock(k) \in Range(blockchain)
        /\ call.index = Last(blockchain).index + 1
        /\ call.previous_hash = Last(blockchain).hash

C5_Witness ==
    /\ pc = "search"
    /\ phase = "loop"
    /\ tampers = 1
    /\ [p \in 1..Len(blockchain) |-> blockchain[p].index] = <<0, 1, 2, 3, 4>>
    /\ blockchain[4].previous_hash # blockchain[3].hash
    /\ call.index = 5
    /\ call.previous_hash = blockchain[5].hash

\* C6: the block mine_block returns has a hash that starts with at least
\* `difficulty` zero characters, for the difficulty passed to that call.
C6_DifficultySatisfied ==
    [][(pc = "search" /\ pc' = "create") =>
          LeadingZeros(mined'.hash) >= call.difficulty]_vars

C6_Witness ==
    /\ pc = "create"
    /\ args.difficulty = 1
    /\ mined.nonce > 0
    /\ LeadingZeros(mined.hash) >= 1

\* C7: within a mine command each block is in the store before the search
\* for the next one starts: from the moment block k is saved until block k+1
\* is saved, the store holds exactly the blocks 0..k, block k as mined.
C7_CrashLeavesPrefix ==
    (pc \in {"search", "create", "write"} /\ SavedThisRun >= 1) =>
        LET k == Last(blockchain).index
        IN /\ StoredIndices = 0..k
           /\ StoredBlock(k) = Last(blockchain)

\* C8: reset empties the store whatever it held; a list that follows reports
\* no block, and a mine that follows starts with a genesis block of index 0
\* and previous_hash "0" on a store with nothing of the earlier chain.
C8_ResetClearsState ==
    [][platform = "apple" =>
         /\ cmd' = "reset" => (store' = EmptyStore /\ ~dirExists')
         /\ (cmd = "reset" /\ cmd' = "list") => out' = <<LineNoBlocks>>
         /\ (cmd = "reset" /\ cmd' = "mine") =>
               /\ DOMAIN store' = {}
               /\ out' = <<LineGenesis>>
               /\ pc' = "search"
               /\ phase' = "genesis"
               /\ call'.index = 0
               /\ call'.previous_hash = Sentinel
         /\ (pc = "search" /\ pc' = "create" /\ phase = "genesis") =>
               (mined'.index = 0 /\ mined'.previous_hash = Sentinel)]_vars

C8_Witness ==
    /\ cmd = "reset"
    /\ out = <<LineDeleted>>
    /\ mines >= 1
    /\ store = EmptyStore
    /\ ~dirExists

\* C9: list and verify leave the store as it is, also when verify finds a
\* broken link, and a list (verify) right after a list (verify) prints the
\* same output.
C9_ListVerifyReadOnly ==
    [][cmd' \in {"list", "verify"} =>
         /\ store' = store
         /\ dirExists' = dirExists
         /\ cmd = cmd' => out' = out]_vars

C9_Witness ==
    /\ cmd = "verify"
    /\ ret = "false"
    /\ tampers = 1
    /\ Len(load_blocks_from_disk(dirExists, store)) >= 3

\* C10: verify_chain returns false exactly when some position i >= 1 has
\* chain[i].previous_hash # chain[i-1].hash; it then reports the smallest
\* such i and nothing more; empty and single-block chains are valid.
C10_VerifyChainFirstBreak ==
    pc = "verified" =>
        LET breaks == {i \in 1..(Len(blockchain) - 1) :
                          blockchain[i + 1].previous_hash # blockchain[i].hash}
        IN /\ ret = "false" <=> breaks # {}
           /\ ret = "true" <=> breaks = {}
           /\ breaks # {} => out = <<LineInvalidLink(Min(breaks))>>
           /\ breaks = {} => out = <<LineAllLinked>>
           /\ Len(blockchain) <= 1 => ret = "true"

C10_Witness ==
    /\ pc = "verified"
    /\ Len(blockchain) = 3
    /\ blockchain[2].previous_hash # blockchain[1].hash
    /\ blockchain[3].previous_hash # blockchain[2].hash
    /\ out = <<LineInvalidLink(1)>>

\* C11 (as claimed): when the data of a stored block is changed and its stored
\* hash left as it was, the verify command reports the chain as invalid.
C11_EditedDataReported ==
    (pc = "idle" /\ cmd = "verify" /\ exit = 0
        /\ \E k \in StoredIndices : ~HashIntact(StoredBlock(k))) =>
        ret = "false"

\* C11 (amended): when the data of a stored block is changed and its stored
\* hash left as it was, the hash recomputed from the block's fields no longer
\* equals the stored hash, but the verify command, which compares only
\* previous_hash with the hash of the block before, reports what it reported
\* before the change.
C11_EditedDataUnreported ==
    [][/\ cmd' = "tamper" =>
            \A k \in DOMAIN store :
                store'[k] # store[k] =>
                    /\ store'[k].block.hash = store[k].block.hash
                    /\ HashIntact(store[k].block)
                    /\ ~HashIntact(store'[k].block)
       /\ (cmd = "tamper" /\ cmd' = "verify" /\ ret # "none") =>
            (ret' = ret /\ out' = out)]_vars

C11_Witness ==
    /\ pc = "idle"
    /\ cmd = "verify"
    /\ tampers = 1
    /\ Cardinality(StoredIndices) >= 2
    /\ \E k \in StoredIndices : k >= 1 /\ ~HashIntact(StoredBlock(k))
    /\ out = <<LineAllLinked>>

\* C12: a mine command on a store with no persisted chain mines a genesis
\* block with index 0, previous_hash "0" and the difficulty of the command,
\* and has it in the store before it mines any other block; a mine command on
\* a store that holds a chain creates no genesis block.
C12_Bootstrap ==
    [][/\ mines' = mines + 1 =>
            IF load_blocks_from_disk(dirExists, store) = <<>>
            THEN /\ out' = <<LineGenesis>>
                 /\ pc' = "search"
                 /\ phase' = "genesis"
                 /\ call'.index = 0
                 /\ call'.previous_hash = <<"0">>
                 /\ call'.difficulty = args'.difficulty
            ELSE out' = <<>>
       /\ (pc = "search" /\ pc' = "create" /\ phase = "genesis") =>
            /\ mined'.index = 0
            /\ mined'.previous_hash = <<"0">>
            /\ LeadingZeros(mined'.hash) >= args.difficulty
       /\ (pc' # "idle" /\ out' # <<>> /\ Head(out') = LineGenesis /\ phase' = "loop") =>
            /\ 0 \in DOMAIN store'
            /\ store'[0] = JsonOf(blockchain'[1])
            /\ blockchain'[1].index = 0
            /\ blockchain'[1].previous_hash = <<"0">>
       /\ (pc' # "idle" /\ (out' = <<>> \/ Head(out') # LineGenesis)) =>
            /\ phase' = "loop"
            /\ pc' = "search" => call'.index >= 1
            /\ pc' \in {"create", "write"} => mined'.index >= 1]_vars

C12_Witness ==
    /\ pc = "search"
    /\ phase = "loop"
    /\ mines = 2
    /\ out # <<>>
    /\ Head(out) = LineGenesis
    /\ call.index = 1
    /\ StoredIndices = {0}
    /\ StoredBlock(0).previous_hash = <<"0">>

\* C13: every block that mine has persisted satisfies
\* hash = calculate_hash(index, timestamp, data, nonce, previous_hash) over
\* its own stored fields, in every store reachable by mine and reset commands.
C13_StoredHashRecomputes ==
    \A k \in StoredIndices :
        StoredBlock(k).hash =
            calculate_hash(StoredBlock(k).index, StoredBlock(k).timestamp,
                           StoredBlock(k).data, StoredBlock(k).nonce,
                           StoredBlock(k).previous_hash)

C13_Witness ==
    /\ Cardinality(StoredIndices) = 3
    /\ \E k \in StoredIndices : StoredBlock(k).nonce > 0 /\ StoredBlock(k).timestamp > 0
    /\ \E k \in StoredIndices : StoredBlock(k).mining_duration_ms > 0

\* C14: a stored file that fails to deserialize is skipped and does not abort
\* the load: load_blocks_from_disk returns exactly the blocks of the files
\* that parse, in file name order, whatever mix of files the store holds.
C14_UnparsableSkipped ==
    pc = "loaded" =>
        /\ Len(blockchain) = Cardinality(StoredIndices)
        /\ Range(blockchain) = {StoredBlock(k) : k \in StoredIndices}
        /\ \A p \in 1..(Len(blockchain) - 1) :
               PathLess(FileName(blockchain[p].index),
                        FileName(blockchain[p + 1].index))

C14_Witness ==
    /\ pc = "loaded"
    /\ DOMAIN store = LoadPool
    /\ store[1] = GarbageFile
    /\ [p \in 1..Len(blockchain) |-> blockchain[p].index] = <<0, 10, 2>>

\* C15: the verify command ends with a non-zero exit status when the loaded
\* chain is empty and when the chain has a broken link, and with status zero
\* only when the chain is non-empty and fully linked.
C15_VerifyExitStatus ==
    (pc = "idle" /\ cmd = "verify" /\ platform = "apple") =>
        LET chain == load_blocks_from_disk(dirExists, store)
        IN exit = 0 <=> (chain # <<>> /\ Linked(chain))

\* C16: a store produced only by mine commands from an empty store is
\* reported as properly linked by the verify command, for every number of
\* blocks and every split of them over invocations, also past 10 blocks.
C16_MinedStoreVerifies ==
    (pc = "idle" /\ cmd = "verify" /\ platform = "apple"
        /\ load_blocks_from_disk(dirExists, store) # <<>>) =>
        (ret = "true" /\ out = <<LineAllLinked>>)

\* C17: mine_block tries the nonces 0, 1, 2, ... in order with the one
\* timestamp taken at its entry, so the block it returns carries the smallest
\* nonce whose hash meets the prefix for that index, timestamp, data and
\* previous_hash; with difficulty 0 it returns nonce 0.
C17_LeastNonce ==
    [][(pc = "search" /\ pc' = "create") =>
          LET Meets(n) ==
                  starts_with(calculate_hash(mined'.index, mined'.timestamp,
                                             mined'.data, n, mined'.previous_hash),
                              Repeat0(call.difficulty))
          IN /\ mined'.index = call.index
             /\ mined'.timestamp = call.timestamp
             /\ mined'.data = call.data
             /\ mined'.previous_hash = call.previous_hash
             /\ Meets(mined'.nonce)
             /\ \A m \in 0..(mined'.nonce - 1) : ~Meets(m)
             /\ call.difficulty = 0 => mined'.nonce = 0]_vars

C17_Witness ==
    /\ pc = "create"
    /\ mined.index = 2
    /\ mined.nonce >= 2
    /\ clock > mined.timestamp
    /\ starts_with(mined.hash, <<"0">>)

\* C18: mine_block has no error outcome and no cap on the search: it returns
\* only with a hash that meets the prefix, and for a difficulty larger than
\* the number of characters of the digest it never returns, so a mine command
\* with such a difficulty never persists any block.
C18_NoReturnBeyondDigest ==
    [][/\ (pc = "search" /\ pc' # "search") =>
            \/ pc' = "create" /\ starts_with(mined'.hash, Repeat0(call.difficulty))
            \/ pc' = "idle" /\ exit' = 137
       /\ (pc # "idle" /\ args.difficulty > DigestLen) =>
            /\ pc = "search"
            /\ store' = store
            /\ dirExists' = dirExists
            /\ pc' = "search" \/ (pc' = "idle" /\ exit' = 137)]_vars

C18_Witness ==
    /\ pc = "search"
    /\ phase = "loop"
    /\ args.difficulty > DigestLen
    /\ call.difficulty > DigestLen
    /\ call.index = 2
    /\ StoredIndices = {0, 1}

\* C19: the string calculate_hash digests identifies the five fields: two
\* tuples (index, timestamp, data, nonce, previous_hash) that differ in at
\* least one field are concatenated to different strings, so two different
\* blocks never share a digest input.
C19_HashInputInjective ==
    pc = "hashed" =>
        LET Fields(b) == <<b.index, b.timestamp, b.data, b.nonce, b.previous_hash>>
        IN Fields(blockchain[1]) # Fields(blockchain[2]) => out[1] # out[2]

====
